---- MODULE Spec2Model ----
(***************************************************************************)
(* The in-memory TODO store of packages/core/src/tools/todo.ts             *)
(* (class TodoManager): an ordered list of step records and the counter    *)
(* that numbers them, with the six operations the class exposes.           *)
(*                                                                         *)
(* Strings are TLA+ strings.  Number.prototype.toString is computed digit  *)
(* by digit, so a step id is the decimal numeral of the counter value it   *)
(* was made from, and ids are compared as strings (===), never as numbers. *)
(***************************************************************************)
EXTENDS Integers, Sequences, FiniteSets

(* ------------------------------ bounds -------------------------------- *)

\* TodoTool.execute is not asked to add once the counter has passed
\* MaxToolId, nor to initialize with more than MaxToolInit steps.
MaxToolId == 2

MaxToolInit == 2

\* Where object identities are followed, at most MaxRef record objects
\* are made.
MaxRef == 3

\* addStep is not called once the counter has passed MaxId.
MaxId == 3

\* initializeTodo is called with at most MaxInit entries.
MaxInit == 2

(* ------------------------- TodoStatus (enum) -------------------------- *)

NOT_MADE == "not_made"

IN_PROGRESS == "in_progress"

MADE == "made"

TodoStatus == {NOT_MADE, IN_PROGRESS, MADE}

(* ------------------------------ inputs -------------------------------- *)

\* The {title, description} objects callers pass to initializeTodo/addStep.
StepInputs ==
  { [title |-> "A", description |-> "a"],
    [title |-> "B", description |-> "b"] }

\* The arrays passed to initializeTodo: every array of 0..MaxInit entries.
StepArrays == UNION { [1..n -> StepInputs] : n \in 0..MaxInit }

(* --------------------- Number.prototype.toString ---------------------- *)

Digit(d) == <<"0", "1", "2", "3", "4", "5", "6", "7", "8", "9">>[d + 1]

RECURSIVE toString(_)
toString(n) ==
  IF n < 10 THEN Digit(n) ELSE toString(n \div 10) \o Digit(n % 10)

\* The id strings callers pass to deleteStep/updateStatus: the numerals a
\* store within the bounds can hold, one it cannot, and "01", which is
\* numerically 1 but not the string "1".
IdInputs == { toString(i) : i \in 1..(MaxId + 1) } \cup {"01"}

(* ------------------------- TodoManager methods ------------------------ *)
\* Each method is an operator from the fields it reads (st = this.steps,
\* n = this.nextId) and its arguments to the fields after the call and the
\* value returned.

VOID == "void"

\* initializeTodo without line 44: the counter keeps its old value.
initializeTodo_KeepsCounter(st, n, entries) ==
  [ steps  |-> [ i \in 1..Len(entries) |->
                   [ id          |-> toString((i - 1) + 1),
                     title       |-> entries[i].title,
                     description |-> entries[i].description,
                     status      |-> NOT_MADE ] ],
    nextId |-> n,
    ret    |-> VOID ]

\* initializeTodo with line 44 off by one: nextId = steps.length.
initializeTodo_CounterIsLength(st, n, entries) ==
  [ steps  |-> [ i \in 1..Len(entries) |->
                   [ id          |-> toString((i - 1) + 1),
                     title       |-> entries[i].title,
                     description |-> entries[i].description,
                     status      |-> NOT_MADE ] ],
    nextId |-> Len(entries),
    ret    |-> VOID ]

initializeTodo(st, n, entries) ==
  LET mapped == [ i \in 1..Len(entries) |->
                    [ id          |-> toString((i - 1) + 1),
                      title       |-> entries[i].title,
                      description |-> entries[i].description,
                      status      |-> NOT_MADE ] ]
  IN  [ steps |-> mapped, nextId |-> Len(mapped) + 1, ret |-> VOID ]

\* addStep without line 55: the counter is not advanced.
addStep_NoIncrement(st, n, title, description) ==
  [ steps  |-> Append(st, [ id |-> toString(n), title |-> title,
                            description |-> description,
                            status |-> NOT_MADE ]),
    nextId |-> n,
    ret    |-> toString(n) ]

\* addStep numbering by position: the id is steps.length + 1.
addStep_LengthId(st, n, title, description) ==
  [ steps  |-> Append(st, [ id |-> toString(Len(st) + 1), title |-> title,
                            description |-> description,
                            status |-> NOT_MADE ]),
    nextId |-> n + 1,
    ret    |-> toString(Len(st) + 1) ]

\* addStep with unshift for push: the record goes to the front.
addStep_Unshift(st, n, title, description) ==
  [ steps  |-> <<[ id |-> toString(n), title |-> title,
                   description |-> description,
                   status |-> NOT_MADE ]>> \o st,
    nextId |-> n + 1,
    ret    |-> toString(n) ]

addStep(st, n, title, description) ==
  LET id == toString(n)
  IN  [ steps  |-> Append(st, [ id          |-> id,
                                title       |-> title,
                                description |-> description,
                                status      |-> NOT_MADE ]),
        nextId |-> n + 1,
        ret    |-> id ]

\* findIndex comparing numerically (Number(step.id) === Number(id)), so
\* that "01" finds the record "1".
findIndex_Numeric(st, id) ==
  LET norm(x) == IF x = "01" THEN "1" ELSE x IN
  IF \E k \in 1..Len(st) : st[k].id = norm(id)
  THEN (CHOOSE k \in 1..Len(st) :
          /\ st[k].id = norm(id)
          /\ \A j \in 1..(k - 1) : st[j].id # norm(id)) - 1
  ELSE -1

\* Array.prototype.findIndex with the predicate step.id === id: the
\* 0-based index of the first match, -1 when there is none.
findIndex(st, id) ==
  IF \E k \in 1..Len(st) : st[k].id = id
  THEN (CHOOSE k \in 1..Len(st) :
          /\ st[k].id = id
          /\ \A j \in 1..(k - 1) : st[j].id # id) - 1
  ELSE -1

\* Array.prototype.splice(index, 1) for a 0-based index inside the array.
splice(st, index) ==
  [ k \in 1..(Len(st) - 1) |-> IF k <= index THEN st[k] ELSE st[k + 1] ]

\* deleteStep with splice(index): everything from index on is removed.
deleteStep_SpliceNoCount(st, n, id) ==
  LET index == findIndex(st, id)
  IN  IF index # -1
      THEN [ steps |-> SubSeq(st, 1, index), nextId |-> n, ret |-> TRUE ]
      ELSE [ steps |-> st, nextId |-> n, ret |-> FALSE ]

\* deleteStep that gives the counter value back (this.nextId--).
deleteStep_Renumbers(st, n, id) ==
  LET index == findIndex(st, id)
  IN  IF index # -1
      THEN [ steps |-> splice(st, index), nextId |-> n - 1, ret |-> TRUE ]
      ELSE [ steps |-> st, nextId |-> n, ret |-> FALSE ]

\* deleteStep that reports the match but leaves the record in the list.
deleteStep_NoSplice(st, n, id) ==
  [ steps |-> st, nextId |-> n, ret |-> (findIndex(st, id) # -1) ]

deleteStep(st, n, id) ==
  LET index == findIndex(st, id)
  IN  IF index # -1
      THEN [ steps |-> splice(st, index), nextId |-> n, ret |-> TRUE ]
      ELSE [ steps |-> st, nextId |-> n, ret |-> FALSE ]

\* updateStatus with forEach for find: a match sets every record's status.
updateStatus_All(st, n, id, status) ==
  IF findIndex(st, id) # -1
  THEN [ steps  |-> [ k \in 1..Len(st) |-> [st[k] EXCEPT !.status = status] ],
         nextId |-> n, ret |-> TRUE ]
  ELSE [ steps |-> st, nextId |-> n, ret |-> FALSE ]

updateStatus(st, n, id, status) ==
  LET index == findIndex(st, id)   \* Array.prototype.find: first match
  IN  IF index # -1
      THEN [ steps  |-> [st EXCEPT ![index + 1].status = status],
             nextId |-> n, ret |-> TRUE ]
      ELSE [ steps |-> st, nextId |-> n, ret |-> FALSE ]

getSteps(st, n) ==
  [ steps |-> st, nextId |-> n, ret |-> [ k \in 1..Len(st) |-> st[k] ] ]

\* clearTodo without line 107: the counter keeps its value.
clearTodo_KeepsCounter(st, n) ==
  [ steps |-> <<>>, nextId |-> n, ret |-> VOID ]

\* clearTodo without line 106: the list keeps its records.
clearTodo_KeepsList(st, n) ==
  [ steps |-> st, nextId |-> 1, ret |-> VOID ]

clearTodo(st, n) ==
  [ steps |-> <<>>, nextId |-> 1, ret |-> VOID ]

(* ------------------------------- state -------------------------------- *)

VARIABLES
  steps,      \* TodoManager.steps
  nextId,     \* TodoManager.nextId
  lastOp,     \* the most recent call on the store: method and arguments
  ret,        \* what that call returned
  removed,    \* the id that call removed, when it was a deleteStep that
              \* returned true; NONE otherwise
  removedBefore, \* the same of the call before it
  issued,     \* every id given to a record since the store was constructed
  epochIds,   \* every id given to a record since the last initializeTodo
              \* or clearTodo (or construction), initializeTodo's included
  addIds,     \* the ids returned by addStep since then, in call order
  clearRun,   \* the calls since the last clearTodo, that one included,
              \* while they are the start of clear, list, add; else <<>>
  params,     \* the request of the most recent TodoTool.execute call
  result,     \* what that call produced
  refs,       \* the object behind each element of TodoManager.steps:
              \* refs[k] is the identity of the record object steps[k]
  nextRef,    \* the identity the next record object gets
  held,       \* the array a caller got from getSteps and kept: whether
              \* it got one, and the identities of the objects the array
              \* refers to, in order
  callerDid,  \* what the caller last did to that array or its elements
  view,       \* the view that uses useTodoList: "new", "mounted" or
              \* "discarded"
  timer,      \* whether the interval set by the effect is active
  ticks,      \* how many times the interval has fired
  polls,      \* the calls of fetchTodos, in the order they started: what
              \* started each, where it is, and the result it awaits
  todos,      \* useState: todos
  isLoading,  \* useState: isLoading
  screen,     \* where the session is: at the "main prompt", or "working"
              \* on what the user submitted
  instance,   \* TodoManager.instance: 0 while undefined, else the object
  heap,       \* the TodoManager objects constructed, in order: the fields
              \* of each
  got,        \* the objects getInstance has returned
  tool,       \* the TodoTool object whose execute was called last
  cwd,        \* process.cwd()
  env,        \* process.env: GEMINI_SYSTEM_MD and GEMINI_WRITE_SYSTEM_MD
  files,      \* the file system: the contents of the file at each path
  called,     \* the last call of getCoreSystemPromptEnhanced or
              \* EnhancedConfig.initialize: its name, the user memory,
              \* and whether it threw and what it returned
  writes      \* what the calls of EnhancedConfig.initialize wrote to
              \* enhanced-system.md, in call order

\* What the calls on the store are observed by.
observers ==
  <<lastOp, ret, removed, removedBefore, issued, epochIds, addIds, clearRun>>

\* The state of the tool adapter, which direct calls on the store leave alone.
toolVars == <<params, result>>

hookVars == <<view, timer, ticks, polls, todos, isLoading>>

\* The host of the tool: the session.
sessionVars == <<screen>>

singletonVars == <<instance, heap, got, tool>>

\* The process around getCoreSystemPromptEnhanced and EnhancedConfig.
configVars == <<cwd, env, files, called, writes>>

hostVars == <<sessionVars, singletonVars, configVars>>

\* The object identities needed to follow an array returned by getSteps.
copyVars == <<refs, nextRef, held, callerDid>>

outside == <<toolVars, copyVars, hookVars, hostVars>>

vars == <<steps, nextId, observers, outside>>

\* A call record; arguments a method does not take are NONE.
NONE == "-"

Call(name, id, status, title, description, entries) ==
  [ name |-> name, id |-> id, status |-> status, title |-> title,
    description |-> description, entries |-> entries ]

Ids(st) == { st[k].id : k \in 1..Len(st) }

\* clearRun after one more call, of the method named name.
Run(name) ==
  LET pattern == <<"clear", "list", "add">>
      longer  == Append(clearRun, name)
  IN  IF name = "clear" THEN <<"clear">>
      ELSE IF Len(longer) <= Len(pattern)
              /\ \A k \in 1..Len(longer) : longer[k] = pattern[k]
      THEN longer
      ELSE <<>>

\* No record object has been made and no array handed out.
CopyIdle ==
  /\ refs = <<>>
  /\ nextRef = 1
  /\ held = [got |-> FALSE, array |-> <<>>]
  /\ callerDid = NONE

\* process.env.X of a variable that is not set (undefined).
UNSET == "#unset"

\* What the file system has at a path where there is no file.
ABSENT == "#absent"

\* The working directories the process is put in.
Cwds == {"/w", "/W"}

\* The paths given in GEMINI_SYSTEM_MD and GEMINI_WRITE_SYSTEM_MD.
CustomPaths == {"/tmp/Prompt.md", "/tmp/prompt.md"}

\* The paths of the file system that are followed.
Paths ==
  CustomPaths
  \cup { c \o "/.gemini/system.md" : c \in Cwds }
  \cup { c \o "/.gemini/enhanced-system.md" : c \in Cwds }
  \cup { c \o "/.git" : c \in Cwds }

NoCall == [ name |-> NONE, userMemory |-> NONE, threw |-> FALSE, value |-> NONE ]

\* The process at its start: no override set, no file at any path.
ConfigIdle ==
  /\ cwd = "/w"
  /\ env = [ GEMINI_SYSTEM_MD |-> UNSET, GEMINI_WRITE_SYSTEM_MD |-> UNSET ]
  /\ files = [ p \in Paths |-> ABSENT ]
  /\ called = NoCall
  /\ writes = <<>>

\* The session starts at the main prompt.
HostIdle ==
  /\ screen = "main prompt"
  /\ instance = 0
  /\ heap = <<>>
  /\ got = {}
  /\ tool = 0

\* The hook before its view is mounted.
HookIdle ==
  /\ view = "new"
  /\ timer = FALSE
  /\ ticks = 0
  /\ polls = <<>>
  /\ todos = <<>>
  /\ isLoading = FALSE

\* No TodoTool.execute call has been made.
ToolIdle ==
  /\ params = [ action |-> NONE, steps |-> [kind |-> "undefined", items |-> <<>>],
                step_id |-> NONE, title |-> NONE, description |-> NONE,
                status |-> NONE ]
  /\ result = [ threw |-> FALSE, llmContent |-> NONE, returnDisplay |-> NONE ]

Init ==
  /\ steps = <<>>
  /\ nextId = 1
  /\ lastOp = Call("new", NONE, NONE, NONE, NONE, <<>>)
  /\ ret = VOID
  /\ removed = NONE
  /\ removedBefore = NONE
  /\ issued = {}
  /\ epochIds = {}
  /\ addIds = <<>>
  /\ clearRun = <<>>
  /\ ToolIdle
  /\ CopyIdle
  /\ HookIdle
  /\ HostIdle
  /\ ConfigIdle

CallInitializeTodo ==
  \E entries \in StepArrays :
    LET r == initializeTodo(steps, nextId, entries) IN
      /\ steps' = r.steps
      /\ nextId' = r.nextId
      /\ ret' = r.ret
      /\ lastOp' = Call("initialize", NONE, NONE, NONE, NONE, entries)
      /\ clearRun' = Run("initialize")
      /\ UNCHANGED outside
      /\ removed' = NONE
      /\ removedBefore' = removed
      /\ issued' = issued \cup Ids(r.steps)
      /\ epochIds' = Ids(r.steps)
      /\ addIds' = <<>>

CallAddStep ==
  /\ nextId <= MaxId
  /\ \E e \in StepInputs :
       LET r == addStep(steps, nextId, e.title, e.description) IN
         /\ steps' = r.steps
         /\ nextId' = r.nextId
         /\ ret' = r.ret
         /\ lastOp' = Call("add", NONE, NONE, e.title, e.description, <<>>)
         /\ clearRun' = Run("add")
         /\ UNCHANGED outside
         /\ removed' = NONE
         /\ removedBefore' = removed
         /\ issued' = issued \cup {r.ret}
         /\ epochIds' = epochIds \cup {r.ret}
         /\ addIds' = Append(addIds, r.ret)

CallDeleteStep ==
  \E id \in IdInputs :
    LET r == deleteStep(steps, nextId, id) IN
      /\ steps' = r.steps
      /\ nextId' = r.nextId
      /\ ret' = r.ret
      /\ lastOp' = Call("delete", id, NONE, NONE, NONE, <<>>)
      /\ clearRun' = Run("delete")
      /\ UNCHANGED outside
      /\ removed' = IF r.ret THEN id ELSE NONE
      /\ removedBefore' = removed
      /\ UNCHANGED <<issued, epochIds, addIds>>

CallUpdateStatus ==
  \E id \in IdInputs, status \in TodoStatus :
    LET r == updateStatus(steps, nextId, id, status) IN
      /\ steps' = r.steps
      /\ nextId' = r.nextId
      /\ ret' = r.ret
      /\ lastOp' = Call("updateStatus", id, status, NONE, NONE, <<>>)
      /\ clearRun' = Run("updateStatus")
      /\ UNCHANGED outside
      /\ removed' = NONE
      /\ removedBefore' = removed
      /\ UNCHANGED <<issued, epochIds, addIds>>

CallGetSteps ==
  LET r == getSteps(steps, nextId) IN
    /\ steps' = r.steps
    /\ nextId' = r.nextId
    /\ ret' = r.ret
    /\ lastOp' = Call("list", NONE, NONE, NONE, NONE, <<>>)
    /\ clearRun' = Run("list")
    /\ UNCHANGED outside
    /\ removed' = NONE
    /\ removedBefore' = removed
    /\ UNCHANGED <<issued, epochIds, addIds>>

CallClearTodo ==
  LET r == clearTodo(steps, nextId) IN
    /\ steps' = r.steps
    /\ nextId' = r.nextId
    /\ ret' = r.ret
    /\ lastOp' = Call("clear", NONE, NONE, NONE, NONE, <<>>)
    /\ clearRun' = Run("clear")
    /\ UNCHANGED outside
    /\ removed' = NONE
    /\ removedBefore' = removed
    /\ issued' = issued
    /\ epochIds' = {}
    /\ addIds' = <<>>

Next ==
  \/ CallInitializeTodo
  \/ CallAddStep
  \/ CallDeleteStep
  \/ CallUpdateStatus
  \/ CallGetSteps
  \/ CallClearTodo

Spec == Init /\ [][Next]_vars

(* --------------- getSteps and the array it hands out ------------------ *)
\* getSteps returns [...this.steps]: a new array whose elements are the
\* record objects of this.steps themselves.  Here every record object has
\* an identity; the store's array and the caller's array are sequences of
\* identities, and a field written through either is written to the one
\* object.  Identity 0 is an object the caller made itself.

\* steps.map(...) makes one new object per entry.
CopyInitializeTodo ==
  \E entries \in StepArrays :
    LET r == initializeTodo(steps, nextId, entries) IN
      /\ nextRef + Len(entries) - 1 <= MaxRef
      /\ steps' = r.steps
      /\ nextId' = r.nextId
      /\ refs' = [ k \in 1..Len(entries) |-> nextRef + k - 1 ]
      /\ nextRef' = nextRef + Len(entries)
      /\ callerDid' = NONE
      /\ UNCHANGED <<held, observers, toolVars, hookVars, hostVars>>

\* The object literal pushed by addStep is a new object.
CopyAddStep ==
  /\ nextRef <= MaxRef
  /\ \E e \in StepInputs :
       LET r == addStep(steps, nextId, e.title, e.description) IN
         /\ steps' = r.steps
         /\ nextId' = r.nextId
         /\ refs' = Append(refs, nextRef)
         /\ nextRef' = nextRef + 1
         /\ callerDid' = NONE
         /\ UNCHANGED <<held, observers, toolVars, hookVars, hostVars>>

\* splice takes the object out of the store's array; the object lives on
\* in any array that still refers to it.
CopyDeleteStep ==
  \E id \in IdInputs :
    LET r == deleteStep(steps, nextId, id)
        index == findIndex(steps, id)
    IN
      /\ steps' = r.steps
      /\ nextId' = r.nextId
      /\ refs' = IF index # -1 THEN splice(refs, index) ELSE refs
      /\ callerDid' = NONE
      /\ UNCHANGED <<nextRef, held, observers, toolVars, hookVars, hostVars>>

\* step.status = status writes to the object in place.
CopyUpdateStatus ==
  \E id \in IdInputs, status \in TodoStatus :
    LET r == updateStatus(steps, nextId, id, status) IN
      /\ steps' = r.steps
      /\ nextId' = r.nextId
      /\ callerDid' = NONE
      /\ UNCHANGED <<refs, nextRef, held, observers, toolVars, hookVars, hostVars>>

CopyClearTodo ==
  LET r == clearTodo(steps, nextId) IN
    /\ steps' = r.steps
    /\ nextId' = r.nextId
    /\ refs' = <<>>
    /\ callerDid' = NONE
    /\ UNCHANGED <<nextRef, held, observers, toolVars, hookVars, hostVars>>

\* [...this.steps]: a new array, the same objects.
CopyGetSteps ==
  LET r == getSteps(steps, nextId) IN
    /\ steps' = r.steps
    /\ nextId' = r.nextId
    /\ held' = [got |-> TRUE, array |-> [ k \in 1..Len(refs) |-> refs[k] ]]
    /\ callerDid' = "getSteps"
    /\ UNCHANGED <<refs, nextRef, observers, toolVars, hookVars, hostVars>>

\* The caller pushes an object of its own onto the array it holds.
CallerPush ==
  /\ held.got
  /\ Len(held.array) <= MaxRef
  /\ held' = [held EXCEPT !.array = Append(@, 0)]
  /\ callerDid' = "push"
  /\ UNCHANGED <<steps, nextId, refs, nextRef, observers, toolVars, hookVars, hostVars>>

\* The caller pops the last element off the array it holds.
CallerPop ==
  /\ held.got
  /\ Len(held.array) > 0
  /\ held' = [held EXCEPT !.array = SubSeq(@, 1, Len(@) - 1)]
  /\ callerDid' = "pop"
  /\ UNCHANGED <<steps, nextId, refs, nextRef, observers, toolVars, hookVars, hostVars>>

\* The caller reverses the array it holds.
CallerReverse ==
  /\ held.got
  /\ Len(held.array) > 1
  /\ held' = [held EXCEPT !.array =
                [ k \in 1..Len(@) |-> @[Len(@) + 1 - k] ]]
  /\ callerDid' = "reverse"
  /\ UNCHANGED <<steps, nextId, refs, nextRef, observers, toolVars, hookVars, hostVars>>

\* The caller assigns held[i].status: the object written is the store's
\* own record when the store's array still refers to it.
CallerSetStatus ==
  /\ held.got
  /\ \E i \in 1..Len(held.array), status \in TodoStatus :
       /\ steps' = [ k \in 1..Len(steps) |->
                       IF refs[k] = held.array[i]
                       THEN [steps[k] EXCEPT !.status = status]
                       ELSE steps[k] ]
       /\ callerDid' = "status"
  /\ UNCHANGED <<nextId, refs, nextRef, held, observers, toolVars, hookVars, hostVars>>

CopyNext ==
  \/ CopyInitializeTodo
  \/ CopyAddStep
  \/ CopyDeleteStep
  \/ CopyUpdateStatus
  \/ CopyClearTodo
  \/ CopyGetSteps
  \/ CallerPush
  \/ CallerPop
  \/ CallerReverse
  \/ CallerSetStatus

SpecCopy == Init /\ [][CopyNext]_vars

(* ---------------------- getStepsForDisplay ---------------------------- *)
\* The icon strings of getStatusIcon, written as the code points of the
\* characters between the quotes of the source lines.

ICON_NOT_MADE == "<U+00E2,U+00AD,U+2022>"

ICON_IN_PROGRESS == "<U+00F0,U+0178,U+201D,U+201E>"

ICON_MADE == "<U+00E2,U+0153,U+2026>"

getStatusIcon(status) ==
  CASE status = NOT_MADE    -> ICON_NOT_MADE
    [] status = IN_PROGRESS -> ICON_IN_PROGRESS
    [] status = MADE        -> ICON_MADE
    [] OTHER                -> ICON_NOT_MADE

\* Array.prototype.join("\n") of an array of strings.
RECURSIVE join(_)
join(lines) ==
  IF Len(lines) = 0 THEN ""
  ELSE IF Len(lines) = 1 THEN lines[1]
  ELSE lines[1] \o "\n" \o join(Tail(lines))

getStepsForDisplay(st) ==
  IF Len(st) = 0
  THEN ""
  ELSE join([ k \in 1..Len(st) |->
                getStatusIcon(st[k].status) \o " " \o st[k].title ])

(* -------------------------- TodoTool.execute -------------------------- *)
\* Values of request fields.  A string is itself.  The values that are not
\* strings are named: undefined (the field is absent), and the object
\* {"toString": 1}, which is truthy, is no string, and cannot be converted
\* to a string: a template literal holding it throws a TypeError.

UNDEFINED == "#undefined"

UNPRINTABLE == "#{toString:1}"

Truthy(v) == v \notin {UNDEFINED, ""}

\* `${v}`
Str(v) == IF v = UNDEFINED THEN "undefined" ELSE v

\* params.steps: absent, a truthy value that is no array, or an array; an
\* element of the array is a {title, description} record or null.
NullStep == [ isNull |-> TRUE, title |-> UNDEFINED, description |-> UNDEFINED ]

ToolStepInputs ==
  { [ isNull |-> FALSE, title |-> "A", description |-> "a" ], NullStep }

StepsValues ==
  { [kind |-> "undefined", items |-> <<>>], [kind |-> "object", items |-> <<>>] }
  \cup { [kind |-> "array", items |-> a] :
           a \in UNION { [1..m -> ToolStepInputs] : m \in 0..MaxToolInit } }

NoSteps == [kind |-> "undefined", items |-> <<>>]

Request(action, stepsValue, step_id, title, description, status) ==
  [ action |-> action, steps |-> stepsValue, step_id |-> step_id,
    title |-> title, description |-> description, status |-> status ]

Actions ==
  {"initialize", "add", "delete", "update_status", "get_steps", "clear"}

\* The requests given to execute.  Each carries the fields the case of its
\* action reads; the fields that case never reads are absent.
Requests ==
  { Request("initialize", v, UNDEFINED, UNDEFINED, UNDEFINED, UNDEFINED) :
      v \in StepsValues }
  \cup { Request("add", NoSteps, UNDEFINED, t, d, UNDEFINED) :
           t \in {UNDEFINED, "", "A", UNPRINTABLE}, d \in {UNDEFINED, "", "a"} }
  \cup { Request("delete", NoSteps, i, UNDEFINED, UNDEFINED, UNDEFINED) :
           i \in {UNDEFINED, ""} \cup { toString(k) : k \in 1..(MaxToolId + 1) } }
  \cup { Request("update_status", NoSteps, i, UNDEFINED, UNDEFINED, u) :
           i \in {UNDEFINED, ""} \cup { toString(k) : k \in 1..(MaxToolId + 1) },
           u \in {UNDEFINED, "", "bogus", UNPRINTABLE} \cup TodoStatus }
  \cup { Request(a, NoSteps, UNDEFINED, UNDEFINED, UNDEFINED, UNDEFINED) :
           a \in {"get_steps", "clear", "frobnicate", UNDEFINED} }

\* The messages of the TypeErrors the try block can raise (V8's wording).
ERR_NULL_TITLE == "Cannot read properties of null (reading 'title')"

ERR_TO_PRIMITIVE == "Cannot convert object to primitive value"

\* The object given to JSON.stringify for llmContent; a property that is
\* absent from it is UNDEFINED, and hasSteps tells whether it has steps.
Content(success, message, error, step_id, hasSteps, list, display) ==
  [ success |-> success, message |-> message, error |-> error,
    step_id |-> step_id, hasSteps |-> hasSteps, steps |-> list,
    display |-> display ]

\* What the try block does: the store afterwards, and either the message
\* of the error thrown or the ToolResult returned.
Returns(st, n, content, returnDisplay) ==
  [ steps |-> st, nextId |-> n, thrown |-> NONE,
    out |-> [ threw |-> FALSE, llmContent |-> content,
              returnDisplay |-> returnDisplay ] ]

Throws(st, n, message) ==
  [ steps |-> st, nextId |-> n, thrown |-> message,
    out |-> [ threw |-> TRUE, llmContent |-> NONE, returnDisplay |-> NONE ] ]

Fails(st, n, error) ==
  Returns(st, n,
          Content(FALSE, UNDEFINED, error, UNDEFINED, FALSE, <<>>, UNDEFINED),
          "Error: " \o error)

caseInitialize(st, n, p) ==
  IF p.steps.kind = "undefined" \/ p.steps.kind # "array"
  THEN Fails(st, n, "Steps array required for initialize action")
  ELSE IF \E i \in 1..Len(p.steps.items) : p.steps.items[i].isNull
       \* steps.map throws at the null element, before this.steps is assigned
  THEN Throws(st, n, ERR_NULL_TITLE)
  ELSE LET r == initializeTodo(st, n, p.steps.items)
           count == toString(Len(p.steps.items))
       IN  Returns(r.steps, r.nextId,
             Content(TRUE, "Initialized TODO list with " \o count \o " steps",
                     UNDEFINED, UNDEFINED, TRUE, getSteps(r.steps, r.nextId).ret,
                     UNDEFINED),
             "TODO list initialized with " \o count \o " steps")

\* The add case checking the title only.
caseAdd_TitleOnly(st, n, p) ==
  IF ~Truthy(p.title)
  THEN Fails(st, n, "Title and description required for add action")
  ELSE LET r == addStep(st, n, p.title, p.description)
       IN  IF p.title = UNPRINTABLE
           THEN Throws(r.steps, r.nextId, ERR_TO_PRIMITIVE)
           ELSE Returns(r.steps, r.nextId,
                  Content(TRUE, "Added step: " \o Str(p.title), UNDEFINED,
                          r.ret, FALSE, <<>>, UNDEFINED),
                  "Added step: " \o Str(p.title))

caseAdd(st, n, p) ==
  IF ~Truthy(p.title) \/ ~Truthy(p.description)
  THEN Fails(st, n, "Title and description required for add action")
  ELSE LET r == addStep(st, n, p.title, p.description)
       IN  IF p.title = UNPRINTABLE
           \* `Added step: ${params.title}` throws, after addStep returned
           THEN Throws(r.steps, r.nextId, ERR_TO_PRIMITIVE)
           ELSE Returns(r.steps, r.nextId,
                  Content(TRUE, "Added step: " \o Str(p.title), UNDEFINED,
                          r.ret, FALSE, <<>>, UNDEFINED),
                  "Added step: " \o Str(p.title))

caseDelete(st, n, p) ==
  IF ~Truthy(p.step_id)
  THEN Fails(st, n, "Step ID required for delete action")
  ELSE LET r == deleteStep(st, n, p.step_id)
       IN  IF r.ret
           THEN Returns(r.steps, r.nextId,
                  Content(TRUE, "Deleted step " \o Str(p.step_id), UNDEFINED,
                          UNDEFINED, FALSE, <<>>, UNDEFINED),
                  "Deleted step " \o Str(p.step_id))
           ELSE Fails(r.steps, r.nextId,
                      "Step " \o Str(p.step_id) \o " not found")

caseUpdateStatus(st, n, p) ==
  IF ~Truthy(p.step_id) \/ ~Truthy(p.status)
  THEN Fails(st, n, "Step ID and status required for update_status action")
  ELSE LET statusEnum == p.status    \* params.status as TodoStatus
           r == updateStatus(st, n, p.step_id, statusEnum)
           text == "Updated step " \o Str(p.step_id) \o " status to "
                     \o Str(p.status)
       IN  IF r.ret
           THEN IF p.status = UNPRINTABLE
                \* `... status to ${params.status}` throws, after
                \* updateStatus has written the status
                THEN Throws(r.steps, r.nextId, ERR_TO_PRIMITIVE)
                ELSE Returns(r.steps, r.nextId,
                       Content(TRUE, text, UNDEFINED, UNDEFINED, FALSE, <<>>,
                               UNDEFINED),
                       text)
           ELSE Fails(r.steps, r.nextId,
                      "Step " \o Str(p.step_id) \o " not found")

caseGetSteps(st, n, p) ==
  LET r == getSteps(st, n)
  IN  IF \E k \in 1..Len(st) : st[k].title = UNPRINTABLE
      \* `${icon} ${step.title}` in getStepsForDisplay throws
      THEN Throws(r.steps, r.nextId, ERR_TO_PRIMITIVE)
      ELSE Returns(r.steps, r.nextId,
             Content(TRUE, UNDEFINED, UNDEFINED, UNDEFINED, TRUE, r.ret,
                     getStepsForDisplay(st)),
             IF Len(r.ret) > 0 THEN getStepsForDisplay(st)
             ELSE "No TODO steps")

caseClear(st, n, p) ==
  LET r == clearTodo(st, n)
  IN  Returns(r.steps, r.nextId,
        Content(TRUE, "TODO list cleared", UNDEFINED, UNDEFINED, FALSE, <<>>,
                UNDEFINED),
        "TODO list cleared")

\* The switch without its default case: the clear case comes last and
\* takes every other action.
caseDefault_FallsToClear(st, n, p) ==
  caseClear(st, n, p)

caseDefault(st, n, p) ==
  Fails(st, n, "Unknown action: " \o Str(p.action))

\* The switch inside the try block.
tryBlock(st, n, p) ==
  CASE p.action = "initialize"    -> caseInitialize(st, n, p)
    [] p.action = "add"           -> caseAdd(st, n, p)
    [] p.action = "delete"        -> caseDelete(st, n, p)
    [] p.action = "update_status" -> caseUpdateStatus(st, n, p)
    [] p.action = "get_steps"     -> caseGetSteps(st, n, p)
    [] p.action = "clear"         -> caseClear(st, n, p)
    [] OTHER                      -> caseDefault(st, n, p)

\* execute without its catch clause: an error leaves it as an exception.
execute_NoCatch(st, n, p) ==
  tryBlock(st, n, p)

\* try { switch ... } catch (error) { return the failure shape }
execute(st, n, p) ==
  LET t == tryBlock(st, n, p)
  IN  IF t.thrown # NONE
      THEN Fails(t.steps, t.nextId, t.thrown)
      ELSE t

Execute ==
  \E p \in Requests :
    LET r == execute(steps, nextId, p) IN
      /\ p.action = "add" => nextId <= MaxToolId
      /\ params' = p
      /\ result' = r.out
      /\ steps' = r.steps
      /\ nextId' = r.nextId
      /\ UNCHANGED <<observers, copyVars, hookVars, hostVars>>

ToolNext == Execute

SpecTool == Init /\ [][ToolNext]_vars

(* ------------------- the store with any title string ------------------ *)
\* The calls that decide what getStepsForDisplay shows, with titles that
\* are one word and a title that holds a line break.

DisplayInputs ==
  StepInputs \cup { [title |-> "A\nB", description |-> "ab"] }

DisplayArrays == UNION { [1..m -> DisplayInputs] : m \in 0..MaxInit }

DisplayInitializeTodo ==
  \E entries \in DisplayArrays :
    LET r == initializeTodo(steps, nextId, entries) IN
      /\ steps' = r.steps
      /\ nextId' = r.nextId
      /\ UNCHANGED <<observers, outside>>

DisplayAddStep ==
  /\ nextId <= MaxId
  /\ \E e \in DisplayInputs :
       LET r == addStep(steps, nextId, e.title, e.description) IN
         /\ steps' = r.steps
         /\ nextId' = r.nextId
         /\ UNCHANGED <<observers, outside>>

DisplayDeleteStep ==
  \E id \in IdInputs :
    LET r == deleteStep(steps, nextId, id) IN
      /\ steps' = r.steps
      /\ nextId' = r.nextId
      /\ UNCHANGED <<observers, outside>>

DisplayUpdateStatus ==
  \E id \in IdInputs, status \in TodoStatus :
    LET r == updateStatus(steps, nextId, id, status) IN
      /\ steps' = r.steps
      /\ nextId' = r.nextId
      /\ UNCHANGED <<observers, outside>>

DisplayClearTodo ==
  LET r == clearTodo(steps, nextId) IN
    /\ steps' = r.steps
    /\ nextId' = r.nextId
    /\ UNCHANGED <<observers, outside>>

DisplayNext ==
  \/ DisplayInitializeTodo
  \/ DisplayAddStep
  \/ DisplayDeleteStep
  \/ DisplayUpdateStatus
  \/ DisplayClearTodo

SpecDisplay == Init /\ [][DisplayNext]_vars

(* --------------------- useTodoList and its view ----------------------- *)

\* At most MaxPolls calls of fetchTodos are followed.
MaxPolls == 2

\* While the hook is followed, addStep is not called once the counter has
\* passed MaxHookId.
MaxHookId == 2

\* The record put in the store while the hook is followed.
HookInputs == { [title |-> "A", description |-> "a"] }

\* The ids and statuses given to updateStatus while the hook is followed:
\* the statuses are those execute passes on (todo.ts:266-267), a status of
\* the enumeration or any other string, cast without a test.
HookIds == {"1"}

HookStatuses == {IN_PROGRESS, MADE, "bogus"}

\* JSON.parse(JSON.stringify(content)): a property that is undefined is
\* left out and reads as undefined afterwards; strings, booleans and
\* arrays of records of strings come back as they were.
parse(content) == content

\* useTodoList.ts:36-45: the mapping, and the else branch giving [].
\* `steps` is an array whenever it is present.
formattedTodos(todoData) ==
  IF todoData.success /\ todoData.hasSteps
  THEN [ k \in 1..Len(todoData.steps) |->
           LET step == todoData.steps[k] IN
             [ id |-> IF Truthy(step.id) THEN step.id
                      ELSE "todo-" \o toString(k - 1),
               description |->
                 IF Truthy(step.description) THEN step.description
                 ELSE IF Truthy(step.title) THEN step.title
                 ELSE "Untitled task",
               status |->
                 IF step.status = MADE THEN MADE
                 ELSE IF step.status = IN_PROGRESS THEN IN_PROGRESS
                 ELSE NOT_MADE ] ]
  ELSE <<>>

\* TodoListDisplay.tsx: the glyphs are U+2B55, U+1F504 and U+2705.
VIEW_ICON_NOT_MADE == "<U+2B55>"

VIEW_ICON_IN_PROGRESS == "<U+1F504>"

VIEW_ICON_MADE == "<U+2705>"

viewStatusIcon(status) ==
  CASE status = NOT_MADE    -> VIEW_ICON_NOT_MADE
    [] status = IN_PROGRESS -> VIEW_ICON_IN_PROGRESS
    [] status = MADE        -> VIEW_ICON_MADE
    [] OTHER                -> VIEW_ICON_NOT_MADE

\* What TodoListDisplay renders under its heading: nothing (null) for an
\* empty list, else one row per entry with its key, icon, text and
\* strike-through.  The key is `todo.id || index` (line 72) as React
\* reads it, a string: the id, or for an entry without one the numeral of
\* its index, counted from 0.
TodoListDisplay(list) ==
  [ k \in 1..Len(list) |->
      [ key |-> IF Truthy(list[k].id) THEN list[k].id
                ELSE toString(k - 1),
        icon |-> viewStatusIcon(list[k].status),
        text |-> list[k].description,
        strikethrough |-> (list[k].status = MADE) ] ]

\* The result a call of fetchTodos holds while it has none.
NoResult ==
  [ threw |-> FALSE,
    llmContent |-> Content(FALSE, NONE, NONE, NONE, FALSE, <<>>, NONE),
    returnDisplay |-> NONE ]

\* What config.getToolRegistry() and getTool('todo_tool') come to: the
\* tool, no tool, or a rejection.
RegistryOutcomes == {"tool", "no tool", "rejects"}

\* fetchTodos up to its first await: setIsLoading(true) and the call of
\* config.getToolRegistry().
fetchTodos(source) ==
  /\ isLoading' = TRUE
  /\ polls' = Append(polls, [ source |-> source, phase |-> "registry",
                              turn |-> 0, out |-> NoResult ])
  /\ UNCHANGED todos

\* clearInterval(interval) without effect.
clearInterval_Noop(active) == active

\* clearInterval(interval): the timer is no longer active.
clearInterval(active) == FALSE

\* The effect of useEffect, run when the view is mounted.
Mount ==
  /\ view = "new"
  /\ view' = "mounted"
  /\ fetchTodos("mount")
  /\ timer' = TRUE
  /\ UNCHANGED <<ticks, steps, nextId, observers, toolVars, copyVars, hostVars>>

\* The interval fires: setInterval(fetchTodos, 10000).
Tick ==
  /\ timer
  /\ Len(polls) < MaxPolls
  /\ ticks' = ticks + 1
  /\ fetchTodos("tick")
  /\ UNCHANGED <<view, timer, steps, nextId, observers, toolVars, copyVars, hostVars>>

\* The view calls the refreshTodos it was given.
RefreshTodos ==
  /\ view = "mounted"
  /\ Len(polls) < MaxPolls
  /\ fetchTodos("refresh")
  /\ UNCHANGED <<view, timer, ticks, steps, nextId, observers, toolVars,
                 copyVars, hostVars>>

\* The cleanup of the effect, run when the view is discarded.
Unmount ==
  /\ view = "mounted"
  /\ view' = "discarded"
  /\ timer' = clearInterval(timer)
  /\ UNCHANGED <<ticks, polls, todos, isLoading, steps, nextId, observers,
                 toolVars, copyVars, hostVars>>

\* The calls of fetchTodos that await the result of execute.
Awaiting == { j \in 1..Len(polls) : polls[j].phase = "execute" }

\* fetchTodos resumes after `await config.getToolRegistry()`: with the
\* tool it calls execute({action: 'get_steps'}), which runs to its return,
\* and awaits the result; with no tool it goes to finally; a rejection
\* goes through catch and finally.  execute awaits nothing, so its promise
\* is settled when it returns and the calls awaiting it resume in the
\* order in which they called it: `turn` is the call's place in that order.
ResumeRegistryAt(k) ==
  \E outcome \in RegistryOutcomes :
    /\ k \in 1..Len(polls)
    /\ polls[k].phase = "registry"
    /\ LET r == execute(steps, nextId,
                        Request("get_steps", NoSteps, UNDEFINED, UNDEFINED,
                                UNDEFINED, UNDEFINED))
       IN  CASE outcome = "tool" ->
                  /\ steps' = r.steps
                  /\ nextId' = r.nextId
                  /\ polls' = [polls EXCEPT ![k].phase = "execute",
                                            ![k].turn = Cardinality(Awaiting) + 1,
                                            ![k].out = r.out]
                  /\ UNCHANGED <<todos, isLoading>>
             [] outcome = "no tool" ->
                  /\ polls' = [polls EXCEPT ![k].phase = "done"]
                  /\ isLoading' = FALSE
                  /\ UNCHANGED <<todos, steps, nextId>>
             [] outcome = "rejects" ->
                  /\ polls' = [polls EXCEPT ![k].phase = "done"]
                  /\ todos' = <<>>
                  /\ isLoading' = FALSE
                  /\ UNCHANGED <<steps, nextId>>
    /\ UNCHANGED <<view, timer, ticks, observers, toolVars, copyVars, hostVars>>

ResumeRegistry == \E k \in 1..MaxPolls : ResumeRegistryAt(k)

\* fetchTodos resumes after `await todoTool.execute(...)`: llmContent is
\* a string of JSON, so it is truthy and is parsed; then finally.
ResumeExecuteAt(k) ==
    /\ k \in 1..Len(polls)
    /\ polls[k].phase = "execute"
    /\ polls[k].turn = 1
    /\ todos' = formattedTodos(parse(polls[k].out.llmContent))
    /\ isLoading' = FALSE
    /\ polls' = [ j \in 1..Len(polls) |->
                   IF j = k
                   THEN [ polls[j] EXCEPT !.phase = "done", !.turn = 0,
                                          !.out = NoResult ]
                   ELSE IF j \in Awaiting
                   THEN [ polls[j] EXCEPT !.turn = @ - 1 ]
                   ELSE polls[j] ]
    /\ UNCHANGED <<view, timer, ticks, steps, nextId, observers, toolVars,
                   copyVars, hostVars>>

ResumeExecute == \E k \in 1..MaxPolls : ResumeExecuteAt(k)

\* The store changes while the hook polls it.
HookAddStep ==
  /\ nextId <= MaxHookId
  /\ \E e \in HookInputs :
       LET r == addStep(steps, nextId, e.title, e.description) IN
         /\ steps' = r.steps
         /\ nextId' = r.nextId
  /\ UNCHANGED <<observers, toolVars, copyVars, hookVars, hostVars>>

HookUpdateStatus ==
  /\ \E id \in HookIds, status \in HookStatuses :
       LET r == updateStatus(steps, nextId, id, status) IN
         /\ steps' = r.steps
         /\ nextId' = r.nextId
  /\ UNCHANGED <<observers, toolVars, copyVars, hookVars, hostVars>>

HookClearTodo ==
  /\ LET r == clearTodo(steps, nextId) IN
       /\ steps' = r.steps
       /\ nextId' = r.nextId
  /\ UNCHANGED <<observers, toolVars, copyVars, hookVars, hostVars>>

HookNext ==
  \/ Mount
  \/ Tick
  \/ RefreshTodos
  \/ Unmount
  \/ ResumeRegistry
  \/ ResumeExecute
  \/ HookAddStep
  \/ HookUpdateStatus
  \/ HookClearTodo

SpecHook == Init /\ [][HookNext]_vars

(* ------------------ useTodoList over an unbounded run ----------------- *)
\* The same hook, followed for as long as the interval keeps firing: the
\* calls of fetchTodos that have come to their end are dropped from polls
\* when the next one starts, at most MaxPolls are under way at a time, and
\* the firings are not counted.

Underway == SelectSeq(polls, LAMBDA c : c.phase # "done")

LiveTick ==
  /\ timer
  /\ Len(Underway) < MaxPolls
  /\ isLoading' = TRUE
  /\ polls' = Append(Underway, [ source |-> "tick", phase |-> "registry",
                                 turn |-> 0, out |-> NoResult ])
  /\ UNCHANGED <<todos, view, timer, ticks, steps, nextId, observers,
                 toolVars, copyVars, hostVars>>

LiveNext ==
  \/ Mount
  \/ LiveTick
  \/ Unmount
  \/ ResumeRegistry
  \/ ResumeExecute
  \/ HookAddStep
  \/ HookUpdateStatus
  \/ HookClearTodo

\* The interval keeps firing while it is set, and every await of a call
\* of fetchTodos comes back.
LiveFairness ==
  /\ WF_vars(Mount)
  /\ WF_vars(LiveTick)
  /\ \A k \in 1..MaxPolls :
       WF_vars(ResumeRegistryAt(k)) /\ WF_vars(ResumeExecuteAt(k))

SpecLive == Init /\ [][LiveNext]_vars /\ LiveFairness

(* ------------------------------ the session --------------------------- *)
\* The agent calls the tool while it works on what the user submitted;
\* when the session returns to the main prompt the TODO list is cleared
\* ("The TODO list is automatically cleared when returning to the main
\* prompt screen").

\* The user submits a prompt and the agent starts working on it.
LeaveMainPrompt ==
  /\ screen = "main prompt"
  /\ screen' = "working"
  /\ UNCHANGED <<steps, nextId, observers, toolVars, copyVars, hookVars,
                 singletonVars, configVars>>

\* The tool is called, whatever the session shows: execute reads no
\* session state, and the refresh hook calls it on every poll.
SessionExecute == Execute

\* The session returning to the main prompt with the store left as it is.
ReturnToMainPrompt_KeepsStore ==
  /\ screen = "working"
  /\ screen' = "main prompt"
  /\ UNCHANGED <<steps, nextId, observers, toolVars, copyVars, hookVars,
                 singletonVars, configVars>>

\* The session returns to the main prompt: the store is reset, as
\* TodoManager.clearTodo resets it, by the host and not by a tool call.
ReturnToMainPrompt ==
  /\ screen = "working"
  /\ screen' = "main prompt"
  /\ LET r == clearTodo(steps, nextId) IN
       /\ steps' = r.steps
       /\ nextId' = r.nextId
  /\ UNCHANGED <<observers, toolVars, copyVars, hookVars,
                 singletonVars, configVars>>

SessionNext ==
  \/ LeaveMainPrompt
  \/ SessionExecute
  \/ ReturnToMainPrompt

SpecSession == Init /\ [][SessionNext]_vars

(* --------------------------- the one instance -------------------------- *)
\* TodoTool objects are made freely (new TodoTool()); each execute gets
\* its TodoManager from getInstance.  Here steps and nextId are the fields
\* of the object the last call worked on.

\* Calls of execute are followed on MaxTools TodoTool objects.
MaxTools == 2

\* new TodoManager(): steps = [], nextId = 1.
newTodoManager == [ steps |-> <<>>, nextId |-> 1 ]

\* getInstance without its test: a new object on every call.
getInstance_AlwaysNew(inst, h) ==
  [ instance |-> Len(h) + 1, heap |-> Append(h, newTodoManager),
    ret |-> Len(h) + 1 ]

\* TodoManager.getInstance(): the static field after the call, the objects
\* there are, and the object returned.
getInstance(inst, h) ==
  IF inst = 0
  THEN [ instance |-> Len(h) + 1, heap |-> Append(h, newTodoManager),
         ret |-> Len(h) + 1 ]
  ELSE [ instance |-> inst, heap |-> h, ret |-> inst ]

\* The requests the TodoTool objects are given: those of Requests, with
\* one title and one description for the records added and a string for
\* the status.
SingletonRequests ==
  { p \in Requests :
      /\ p.action = "add" => (p.title = "A" /\ p.description = "a")
      /\ p.status # UNPRINTABLE
      /\ p.action = "initialize" =>
           \A k \in 1..Len(p.steps.items) : ~p.steps.items[k].isNull }

\* execute(params) on the TodoTool object t.
ToolExecute ==
  \E t \in 1..MaxTools, p \in SingletonRequests :
    LET g == getInstance(instance, heap)
        todoManager == g.heap[g.ret]
        r == execute(todoManager.steps, todoManager.nextId, p)
    IN  /\ p.action = "add" => todoManager.nextId <= MaxToolId
        /\ tool' = t
        /\ instance' = g.instance
        /\ got' = got \cup {g.ret}
        /\ heap' = [ g.heap EXCEPT ![g.ret] =
                       [ steps |-> r.steps, nextId |-> r.nextId ] ]
        /\ steps' = r.steps
        /\ nextId' = r.nextId
        /\ params' = p
        /\ result' = r.out
        /\ UNCHANGED <<observers, copyVars, hookVars, sessionVars, configVars>>

SingletonNext == ToolExecute

SpecSingleton == Init /\ [][SingletonNext]_vars

(* ------------- getCoreSystemPromptEnhanced, EnhancedConfig ------------- *)

UPPER == "ABCDEFGHIJKLMNOPQRSTUVWXYZ"

LOWER == "abcdefghijklmnopqrstuvwxyz"

lowerChar(ch) ==
  IF \E i \in 1..Len(UPPER) : SubSeq(UPPER, i, i) = ch
  THEN LET i == CHOOSE j \in 1..Len(UPPER) : SubSeq(UPPER, j, j) = ch
       IN  SubSeq(LOWER, i, i)
  ELSE ch

\* String.prototype.toLowerCase, on ASCII.
RECURSIVE toLowerCase(_)
toLowerCase(str) ==
  IF str = "" THEN ""
  ELSE lowerChar(SubSeq(str, 1, 1)) \o toLowerCase(SubSeq(str, 2, Len(str)))

\* The characters String.prototype.trim removes (WhiteSpace and
\* LineTerminator) among those a string of this module can hold: space,
\* tab, line feed, carriage return, form feed, vertical tab (U+000B) and
\* no-break space (U+00A0).  The strings followed hold none of the others
\* (U+1680, U+2000..U+200A, U+2028, U+2029, U+202F, U+205F, U+3000,
\* U+FEFF).
isSpace(ch) == ch \in {" ", "\t", "\n", "\r", "\f", "", " "}

\* String.prototype.trim.
RECURSIVE trim(_)
trim(str) ==
  IF str = "" THEN ""
  ELSE IF isSpace(SubSeq(str, 1, 1)) THEN trim(SubSeq(str, 2, Len(str)))
  ELSE IF isSpace(SubSeq(str, Len(str), Len(str)))
  THEN trim(SubSeq(str, 1, Len(str) - 1))
  ELSE str

\* path.resolve of a path without '.' or '..' segments: an absolute path
\* is itself, a relative one is taken from the working directory.
resolve(dir, p) ==
  IF Len(p) > 0 /\ SubSeq(p, 1, 1) = "/" THEN p ELSE dir \o "/" \o p

\* GEMINI_CONFIG_DIR of the core package.
GEMINI_CONFIG_DIR == ".gemini"

exists(fs, p) == p \in DOMAIN fs /\ fs[p] # ABSENT

\* isGitRepository(dir) of the core package: there is a .git in the
\* directory.  The directories followed have no parent with one.
isGitRepository(fs, dir) == exists(fs, dir \o "/.git")

\* The built-in template of prompts-enhanced.ts:140-225, trimmed: one
\* text, but for the sentence of line 222 that isGitRepository chooses.
BUILTIN(git) ==
  "<built-in template: "
    \o (IF git THEN "This appears to be a Git repository. Be mindful of version control when making changes."
        ELSE "This does not appear to be a Git repository.")
    \o ">"

\* process.env.X?.toLowerCase()
envLower(v) == IF v = UNSET THEN UNSET ELSE toLowerCase(v)

\* `systemMdVar && ...`: undefined and '' are falsy.
isSet(v) == v \notin {UNSET, ""}

\* fs.writeFileSync(p, data), the directory of p being there.
writeFileSync(fs, p, data) ==
  IF p \in DOMAIN fs THEN [fs EXCEPT ![p] = data] ELSE fs

memorySuffix(userMemory) ==
  IF userMemory # UNSET /\ Len(trim(userMemory)) > 0
  THEN "\n\n---\n\n" \o trim(userMemory)
  ELSE ""

\* const systemMdVar = process.env.GEMINI_SYSTEM_MD?.toLowerCase();
systemMdVarOf(e) == envLower(e.GEMINI_SYSTEM_MD)

\* getCoreSystemPromptEnhanced(userMemory) in working directory dir, with
\* environment e and file system fs: whether it threw, the error or the
\* value returned, and the file system afterwards.
getCoreSystemPromptEnhanced(dir, e, fs, userMemory) ==
  LET systemMdVar == systemMdVarOf(e)
      systemMdEnabled == isSet(systemMdVar) /\ systemMdVar \notin {"0", "false"}
      systemMdPath ==
        IF systemMdEnabled /\ systemMdVar \notin {"1", "true"}
        THEN resolve(dir, systemMdVar)
        ELSE resolve(dir, GEMINI_CONFIG_DIR \o "/" \o "system.md")
      writeSystemMdVar == envLower(e.GEMINI_WRITE_SYSTEM_MD)
  IN  IF systemMdEnabled /\ ~exists(fs, systemMdPath)
      THEN [ threw |-> TRUE,
             value |-> "missing system prompt file '" \o systemMdPath \o "'",
             files |-> fs ]
      ELSE
        LET basePrompt == IF systemMdEnabled THEN fs[systemMdPath]
                          ELSE BUILTIN(isGitRepository(fs, dir))
            fs2 == IF isSet(writeSystemMdVar)
                      /\ writeSystemMdVar \notin {"0", "false"}
                   THEN IF writeSystemMdVar \in {"1", "true"}
                        THEN writeFileSync(fs, systemMdPath, basePrompt)
                        ELSE writeFileSync(fs, resolve(dir, writeSystemMdVar),
                                           basePrompt)
                   ELSE fs
        IN  [ threw |-> FALSE,
              value |-> basePrompt \o memorySuffix(userMemory),
              files |-> fs2 ]

\* EnhancedConfig.initialize is followed for MaxInitialize calls.
MaxInitialize == 2

\* The values given to GEMINI_SYSTEM_MD and GEMINI_WRITE_SYSTEM_MD.
SystemMdValues == {UNSET, "", "0", "false", "1", "TRUE"} \cup CustomPaths

WriteSystemMdValues == {UNSET, "1", "/tmp/prompt.md"}

\* The user memory given: none, blank, and text with space and a CR LF
\* line ending around it.
UserMemories == {UNSET, " ", " m\r\n"}

\* Files are put at and removed from these paths from outside.
OutsidePaths == CustomPaths \cup {"/w/.gemini/system.md"}

FileContents == {"X", "Y"}

SetSystemMd ==
  /\ \E v \in SystemMdValues : env' = [env EXCEPT !.GEMINI_SYSTEM_MD = v]
  /\ UNCHANGED <<cwd, files, called, writes>>
  /\ UNCHANGED <<steps, nextId, observers, toolVars, copyVars, hookVars,
                 sessionVars, singletonVars>>

SetWriteSystemMd ==
  /\ \E v \in WriteSystemMdValues :
       env' = [env EXCEPT !.GEMINI_WRITE_SYSTEM_MD = v]
  /\ UNCHANGED <<cwd, files, called, writes>>
  /\ UNCHANGED <<steps, nextId, observers, toolVars, copyVars, hookVars,
                 sessionVars, singletonVars>>

PutFile ==
  /\ \E p \in OutsidePaths, data \in FileContents \cup {ABSENT} :
       files' = [files EXCEPT ![p] = data]
  /\ UNCHANGED <<cwd, env, called, writes>>
  /\ UNCHANGED <<steps, nextId, observers, toolVars, copyVars, hookVars,
                 sessionVars, singletonVars>>

\* `git init` in the working directory, from outside.
GitInit ==
  /\ ~isGitRepository(files, cwd)
  /\ files' = [files EXCEPT ![cwd \o "/.git"] = "<git>"]
  /\ UNCHANGED <<cwd, env, called, writes>>
  /\ UNCHANGED <<steps, nextId, observers, toolVars, copyVars, hookVars,
                 sessionVars, singletonVars>>

\* process.chdir
Chdir ==
  /\ \E c \in Cwds : cwd' = c
  /\ UNCHANGED <<env, files, called, writes>>
  /\ UNCHANGED <<steps, nextId, observers, toolVars, copyVars, hookVars,
                 sessionVars, singletonVars>>

GetPrompt ==
  /\ \E userMemory \in UserMemories :
       LET r == getCoreSystemPromptEnhanced(cwd, env, files, userMemory) IN
         /\ files' = r.files
         /\ called' = [ name |-> "getCoreSystemPromptEnhanced",
                        userMemory |-> userMemory,
                        threw |-> r.threw, value |-> r.value ]
  /\ UNCHANGED <<cwd, env, writes>>
  /\ UNCHANGED <<steps, nextId, observers, toolVars, copyVars, hookVars,
                 sessionVars, singletonVars>>

\* EnhancedConfig.initialize(), this.getUserMemory() giving userMemory:
\* the directory is made, the prompt is computed (a throw ends the call),
\* written to enhanced-system.md, and GEMINI_SYSTEM_MD is set to that path.
Initialize ==
  /\ Len(writes) < MaxInitialize
  /\ \E userMemory \in UserMemories :
       LET enhancedPromptPath ==
             cwd \o "/" \o ".gemini" \o "/" \o "enhanced-system.md"
           r == getCoreSystemPromptEnhanced(cwd, env, files, userMemory)
       IN  IF r.threw
           THEN /\ called' = [ name |-> "initialize",
                               userMemory |-> userMemory,
                               threw |-> TRUE, value |-> r.value ]
                /\ UNCHANGED <<env, files, writes>>
           ELSE /\ files' = writeFileSync(r.files, enhancedPromptPath, r.value)
                /\ env' = [env EXCEPT !.GEMINI_SYSTEM_MD = enhancedPromptPath]
                /\ writes' = Append(writes, r.value)
                /\ called' = [ name |-> "initialize",
                               userMemory |-> userMemory,
                               threw |-> FALSE, value |-> r.value ]
  /\ UNCHANGED cwd
  /\ UNCHANGED <<steps, nextId, observers, toolVars, copyVars, hookVars,
                 sessionVars, singletonVars>>

PromptNext ==
  \/ SetSystemMd
  \/ SetWriteSystemMd
  \/ PutFile
  \/ GitInit
  \/ GetPrompt

SpecPrompt == Init /\ [][PromptNext]_vars

ConfigNext ==
  \/ Chdir
  \/ SetSystemMd
  \/ GitInit
  \/ Initialize

SpecConfig == Init /\ [][ConfigNext]_vars

(* ------------------------------ claims -------------------------------- *)

\* The number a decimal numeral stands for; -1 for any other string.
ParseInt(s) ==
  IF \E m \in 0..(MaxId + MaxInit + 2) : toString(m) = s
  THEN CHOOSE m \in 0..(MaxId + MaxInit + 2) : toString(m) = s
  ELSE -1

\* st with the record at (1-based) position k taken out.
Without(st, k) == SubSeq(st, 1, k - 1) \o SubSeq(st, k + 1, Len(st))

\* The ids given to the records the most recent call created.
Created ==
  IF lastOp.name = "add" THEN {ret}
  ELSE IF lastOp.name = "initialize" THEN Ids(steps)
  ELSE {}

\* C1: in every reachable state no two records of the list have the same id.
C1_UniqueIdsInList ==
  \A i, j \in 1..Len(steps) : i # j => steps[i].id # steps[j].id

\* A list of two or more records just after an addStep that followed a
\* deletion: some id of this numbering is no longer in the list.
C1_Witness ==
  /\ lastOp.name = "add"
  /\ Len(steps) >= 2
  /\ \E id \in epochIds : id \notin Ids(steps)

\* C2 as stated: an id given to a record created by addStep or
\* initializeTodo was never given to an earlier record of the store,
\* deleted and cleared records included.
C2_NeverReusedInLifetime ==
  [][ Created' \cap issued = {} ]_vars

\* C2 as amended: an id returned by addStep was not given to any record
\* created since the last initializeTodo or clearTodo (or since
\* construction), deleted records included, and the ids initializeTodo
\* gives are pairwise distinct.
C2_UniqueSinceReset ==
  [][ /\ lastOp'.name = "add" => ret' \notin epochIds
      /\ lastOp'.name = "initialize" =>
           Cardinality(Ids(steps')) = Len(lastOp'.entries) ]_vars

\* An addStep after three ids of the current numbering were given and at
\* least one of those records was deleted.
C2_Witness ==
  /\ lastOp.name = "add"
  /\ Cardinality(epochIds) >= 3
  /\ Cardinality(epochIds) > Len(steps)

\* C3 as stated: no operation lowers the counter.
C3_CounterNeverDecreases ==
  [][ nextId' >= nextId ]_vars

\* C3 as amended: addStep raises the counter by one, deleteStep,
\* updateStatus and getSteps leave it as it is, clearTodo sets it to 1 and
\* initializeTodo to the number of entries plus 1.
C3_CounterSteps ==
  [][ /\ lastOp'.name = "add" => nextId' = nextId + 1
      /\ lastOp'.name \in {"delete", "updateStatus", "list"} =>
           nextId' = nextId
      /\ lastOp'.name = "clear" => nextId' = 1
      /\ lastOp'.name = "initialize" =>
           nextId' = Len(lastOp'.entries) + 1 ]_vars

\* A deleteStep that removed a record while the counter was past 2.
C3_Witness ==
  /\ lastOp.name = "delete"
  /\ ret = TRUE
  /\ nextId > 2

\* C4: the ids addStep returned since the last initializeTodo or clearTodo
\* are strictly increasing as integers, and pairwise distinct as strings.
C4_AddIdsIncreasing ==
  \A i, j \in 1..Len(addIds) :
    i < j => /\ ParseInt(addIds[i]) >= 1
             /\ ParseInt(addIds[i]) < ParseInt(addIds[j])
             /\ addIds[i] # addIds[j]

\* Three addStep calls with a deletion and a status update among them.
C4_Witness ==
  /\ Len(addIds) >= 3
  /\ Len(steps) < Len(addIds)
  /\ \E k \in 1..Len(steps) : steps[k].status # NOT_MADE

\* C5: initializeTodo with N entries leaves exactly N records, the i-th
\* with id i, entry i's title and description and status not_made, and the
\* counter at N + 1; an addStep called next returns N + 1.
C5_InitializeReplaces ==
  [][ /\ lastOp'.name = "initialize" =>
           LET e == lastOp'.entries IN
             /\ Len(steps') = Len(e)
             /\ \A i \in 1..Len(e) :
                  /\ ParseInt(steps'[i].id) = i
                  /\ steps'[i].title = e[i].title
                  /\ steps'[i].description = e[i].description
                  /\ steps'[i].status = NOT_MADE
                  /\ DOMAIN steps'[i] =
                       {"id", "title", "description", "status"}
             /\ nextId' = Len(e) + 1
      /\ (lastOp.name = "initialize" /\ lastOp'.name = "add") =>
           ParseInt(ret') = Len(lastOp.entries) + 1 ]_vars

\* initializeTodo with one entry on a store that had given three ids.
C5_Witness ==
  /\ lastOp.name = "initialize"
  /\ Len(lastOp.entries) = 1
  /\ Len(steps) = 1
  /\ Cardinality(issued) >= 3

\* C6: addStep appends one not_made record whose id is the counter before
\* the call, returns that id, raises the counter by 1 and leaves the
\* records already there, and their order, as they were.
C6_AddAppends ==
  [][ lastOp'.name = "add" =>
        /\ Len(steps') = Len(steps) + 1
        /\ \A k \in 1..Len(steps) : steps'[k] = steps[k]
        /\ steps'[Len(steps')] =
             [ id |-> ret', title |-> lastOp'.title,
               description |-> lastOp'.description, status |-> NOT_MADE ]
        /\ ParseInt(ret') = nextId
        /\ nextId' = nextId + 1 ]_vars

\* An addStep onto a list whose first record is no longer not_made.
C6_Witness ==
  /\ lastOp.name = "add"
  /\ Len(steps) >= 2
  /\ steps[1].status # NOT_MADE
  /\ steps[Len(steps)].id = ret

\* C7: deleteStep returns true exactly when the id is in the list; it then
\* removes that one record; all other records, their order and the counter
\* are unchanged, and a miss changes nothing.
C7_DeleteFrame ==
  [][ lastOp'.name = "delete" =>
        /\ ret' = (lastOp'.id \in Ids(steps))
        /\ nextId' = nextId
        /\ IF lastOp'.id \in Ids(steps)
           THEN \E k \in 1..Len(steps) :
                  /\ steps[k].id = lastOp'.id
                  /\ steps' = Without(steps, k)
           ELSE steps' = steps ]_vars

\* A deleteStep that removed "1" from in front of two survivors.
C7_Witness ==
  /\ lastOp.name = "delete"
  /\ lastOp.id = "1"
  /\ ret = TRUE
  /\ Len(steps) >= 2

\* C8: a deleteStep that immediately follows a deleteStep of the same id
\* returns false and changes neither the list nor the counter.
C8_DeleteTwice ==
  [][ (lastOp.name = "delete" /\ lastOp'.name = "delete"
         /\ lastOp'.id = lastOp.id) =>
        /\ ret' = FALSE
        /\ steps' = steps
        /\ nextId' = nextId ]_vars

\* The second of two deleteStep calls of one id, the first of which
\* removed a record.
C8_Witness ==
  /\ lastOp.name = "delete"
  /\ removedBefore = lastOp.id
  /\ ret = FALSE

\* C9: updateStatus with an id that is not in the list returns false and
\* changes neither the list nor the counter.
C9_UpdateMissing ==
  [][ (lastOp'.name = "updateStatus" /\ lastOp'.id \notin Ids(steps)) =>
        /\ ret' = FALSE
        /\ steps' = steps
        /\ nextId' = nextId ]_vars

\* An updateStatus that missed on a list that is not empty: with "01"
\* while "1" is there, and so not matched numerically.
C9_Witness ==
  /\ lastOp.name = "updateStatus"
  /\ lastOp.id = "01"
  /\ "1" \in Ids(steps)
  /\ ret = FALSE

\* C10: updateStatus with an id that is in the list returns true and sets
\* the status of the record with that id; that record's other fields and
\* position, every other record, the length and the counter are unchanged.
C10_UpdateFrame ==
  [][ (lastOp'.name = "updateStatus" /\ lastOp'.id \in Ids(steps)) =>
        /\ ret' = TRUE
        /\ nextId' = nextId
        /\ Len(steps') = Len(steps)
        /\ \A k \in 1..Len(steps) :
             IF steps[k].id = lastOp'.id
             THEN steps'[k] = [ id          |-> steps[k].id,
                                title       |-> steps[k].title,
                                description |-> steps[k].description,
                                status      |-> lastOp'.status ]
             ELSE steps'[k] = steps[k] ]_vars

\* An updateStatus that set one record to made beside one that is not.
C10_Witness ==
  /\ lastOp.name = "updateStatus"
  /\ ret = TRUE
  /\ lastOp.status = MADE
  /\ \E k, j \in 1..Len(steps) :
       /\ steps[k].id = lastOp.id
       /\ steps[k].status = MADE
       /\ steps[j].status # MADE

\* C11: a getSteps that follows a clearTodo returns the empty sequence, and
\* an addStep called next returns "1".
C11_ClearListAdd ==
  /\ clearRun = <<"clear", "list">> => ret = <<>>
  /\ clearRun = <<"clear", "list", "add">> => ret = "1"

\* clear, list, add on a store that had given at least two ids before.
C11_Witness ==
  /\ clearRun = <<"clear", "list", "add">>
  /\ Cardinality(issued) >= 2

\* C12: nothing the caller does to the array getSteps returned, or to an
\* element of it, changes the store's list or counter (and so what a
\* later getSteps returns).
C12_DefensiveCopy ==
  [][ callerDid' \in {"push", "pop", "reverse", "status"} =>
        /\ steps' = steps
        /\ nextId' = nextId ]_vars

\* C13: every execute call returns a ToolResult whose content carries a
\* boolean success and, when success is false, an error message; none ends
\* in an exception.
C13_AlwaysStructured ==
  params.action # NONE =>
    /\ result.threw = FALSE
    /\ result.llmContent.success \in BOOLEAN
    /\ ~result.llmContent.success =>
         /\ result.llmContent.error \notin {UNDEFINED, ""}
         /\ result.returnDisplay = "Error: " \o result.llmContent.error

\* initialize with a steps array holding null: the TypeError is caught.
C13_Witness ==
  /\ params.action = "initialize"
  /\ params.steps.kind = "array"
  /\ \E i \in 1..Len(params.steps.items) : params.steps.items[i].isNull
  /\ result.threw = FALSE
  /\ result.llmContent.success = FALSE
  /\ result.llmContent.error = ERR_NULL_TITLE

\* C14: a get_steps call, and every call whose result has success false,
\* leaves the store's list and counter as they were.
C14_NoSideEffects ==
  [][ (params'.action = "get_steps" \/ ~result'.llmContent.success) =>
        /\ steps' = steps
        /\ nextId' = nextId ]_vars

\* C15: a call whose action is none of the six returns success false with
\* the error "Unknown action: <action>", and leaves the store as it was.
C15_UnknownAction ==
  [][ params'.action \notin Actions =>
        /\ result'.llmContent.success = FALSE
        /\ result'.llmContent.error = "Unknown action: " \o Str(params'.action)
        /\ steps' = steps
        /\ nextId' = nextId ]_vars

\* frobnicate on a store that holds records.
C15_Witness ==
  /\ params.action = "frobnicate"
  /\ Len(steps) > 0
  /\ result.llmContent.error = "Unknown action: frobnicate"

\* The store after the operation the request asks for.
Applied(st, n, p) ==
  CASE p.action = "initialize" -> initializeTodo(st, n, p.steps.items)
    [] p.action = "add" -> addStep(st, n, p.title, p.description)
    [] p.action = "delete" -> deleteStep(st, n, p.step_id)
    [] p.action = "update_status" -> updateStatus(st, n, p.step_id, p.status)
    [] p.action = "get_steps" -> getSteps(st, n)
    [] p.action = "clear" -> clearTodo(st, n)
    [] OTHER -> [ steps |-> st, nextId |-> n, ret |-> VOID ]

\* The failure conditions of the validation table, a field being missing
\* when it is absent from the request.
TableFails(st, p) ==
  CASE p.action = "initialize" -> p.steps.kind # "array"
    [] p.action = "add" -> p.title = UNDEFINED \/ p.description = UNDEFINED
    [] p.action = "delete" ->
         p.step_id = UNDEFINED \/ p.step_id \notin Ids(st)
    [] p.action = "update_status" ->
         \/ p.step_id = UNDEFINED
         \/ p.status = UNDEFINED
         \/ p.step_id \notin Ids(st)
    [] p.action \in {"get_steps", "clear"} -> FALSE
    [] OTHER -> TRUE

\* C16 as stated: success is false exactly under the conditions of the
\* validation table, and otherwise the store operation has been applied.
C16_TableExactly ==
  [][ /\ result'.llmContent.success = ~TableFails(steps, params')
      /\ result'.llmContent.success =>
           /\ steps' = Applied(steps, nextId, params').steps
           /\ nextId' = Applied(steps, nextId, params').nextId ]_vars

\* The conditions under which execute reports failure: a field is also
\* missing when it is the empty string, a null element of steps, a title
\* or a status that cannot be converted to a string, and for get_steps
\* such a title in the store, are failures too.
ReportsFailure(st, p) ==
  CASE p.action = "initialize" ->
         \/ p.steps.kind # "array"
         \/ \E i \in 1..Len(p.steps.items) : p.steps.items[i] = NullStep
    [] p.action = "add" ->
         \/ p.title \in {UNDEFINED, ""}
         \/ p.description \in {UNDEFINED, ""}
         \/ p.title = UNPRINTABLE
    [] p.action = "delete" ->
         p.step_id \in {UNDEFINED, ""} \/ p.step_id \notin Ids(st)
    [] p.action = "update_status" ->
         \/ p.step_id \in {UNDEFINED, ""}
         \/ p.status \in {UNDEFINED, ""}
         \/ p.step_id \notin Ids(st)
         \/ p.status = UNPRINTABLE
    [] p.action = "get_steps" ->
         \E k \in 1..Len(st) : st[k].title = UNPRINTABLE
    [] p.action = "clear" -> FALSE
    [] OTHER -> TRUE

\* C16 as amended: success is false exactly under ReportsFailure, and
\* otherwise the store operation has been applied.
C16_FailsExactly ==
  [][ /\ result'.llmContent.success = ~ReportsFailure(steps, params')
      /\ result'.llmContent.success =>
           /\ steps' = Applied(steps, nextId, params').steps
           /\ nextId' = Applied(steps, nextId, params').nextId ]_vars

\* A delete that succeeded and left a record behind.
C16_Witness ==
  /\ params.action = "delete"
  /\ result.llmContent.success = TRUE
  /\ params.step_id \notin Ids(steps)
  /\ Len(steps) > 0

\* C17: after any sequence of execute calls every record's status is one
\* of not_made, in_progress, made.
C17_StatusInEnum ==
  \A k \in 1..Len(steps) : steps[k].status \in TodoStatus

\* The lines of a text: the pieces between its line breaks; none when the
\* text is empty.
RECURSIVE LinesFrom(_, _, _)
LinesFrom(text, i, start) ==
  IF i > Len(text) THEN <<SubSeq(text, start, Len(text))>>
  ELSE IF SubSeq(text, i, i) = "\n"
  THEN <<SubSeq(text, start, i - 1)>> \o LinesFrom(text, i + 1, i + 1)
  ELSE LinesFrom(text, i + 1, start)

Lines(text) == IF text = "" THEN <<>> ELSE LinesFrom(text, 1, 1)

\* The glyph fixed for each status.
Glyph(status) ==
  CASE status = NOT_MADE    -> ICON_NOT_MADE
    [] status = IN_PROGRESS -> ICON_IN_PROGRESS
    [] status = MADE        -> ICON_MADE

\* The rendering has one line per record, in list order: the record's
\* glyph, a space and its title; the three glyphs differ.
OneLinePerRecord ==
  /\ Lines(getStepsForDisplay(steps)) =
       [ k \in 1..Len(steps) |->
           Glyph(steps[k].status) \o " " \o steps[k].title ]
  /\ Cardinality({ Glyph(u) : u \in TodoStatus }) = 3

HasLineBreak(text) == \E i \in 1..Len(text) : SubSeq(text, i, i) = "\n"

\* C18 as stated: in every store state the rendering has one line per
\* record, glyph and title, and is empty when the list is empty.
C18_OneLinePerRecord ==
  /\ OneLinePerRecord
  /\ Len(steps) = 0 => getStepsForDisplay(steps) = ""

\* The line break is the only cause: where no title holds one, the
\* rendering has one line per record.
OneLinePerRecordNoBreak ==
  (\A k \in 1..Len(steps) : ~HasLineBreak(steps[k].title)) =>
    OneLinePerRecord

\* The scenario of C18 is reached and renders as the claim says: A
\* not_made before B in_progress.
ScenarioRendered ==
  /\ Len(steps) = 2
  /\ steps[1].title = "A" /\ steps[1].status = NOT_MADE
  /\ steps[2].title = "B" /\ steps[2].status = IN_PROGRESS
  /\ getStepsForDisplay(steps) =
       ICON_NOT_MADE \o " A\n" \o ICON_IN_PROGRESS \o " B"

\* C19: when a poll whose get_steps succeeded completes, the view model
\* has one entry per record of the store state that was polled, in order,
\* entry i with record i's id and status, and the text the view shows for
\* it is record i's title, the label on line i of the textual rendering.
C19_ViewMatchesText ==
  [][ \A k \in 1..Len(polls) :
        ( /\ polls[k].phase = "execute"
          /\ polls'[k].phase = "done"
          /\ polls[k].out.llmContent.success ) =>
          LET data == polls[k].out.llmContent
              rows == TodoListDisplay(todos')
          IN  /\ Len(todos') = Len(data.steps)
              /\ \A i \in 1..Len(data.steps) :
                   /\ todos'[i].id = data.steps[i].id
                   /\ todos'[i].status = data.steps[i].status
                   /\ rows[i].text = data.steps[i].title
                   /\ Lines(data.display)[i] =
                        getStatusIcon(data.steps[i].status) \o " "
                          \o rows[i].text ]_vars

\* Apart from the label the view model follows the store: same length and
\* order, ids, and the statuses that are of the enumeration; any other
\* status stored is shown as not_made.
ViewMatchesIdsAndStatuses ==
  [][ \A k \in 1..Len(polls) :
        ( /\ polls[k].phase = "execute"
          /\ polls'[k].phase = "done"
          /\ polls[k].out.llmContent.success ) =>
          LET data == polls[k].out.llmContent
          IN  /\ Len(todos') = Len(data.steps)
              /\ \A i \in 1..Len(data.steps) :
                   /\ todos'[i].id = data.steps[i].id
                   /\ todos'[i].status =
                        IF data.steps[i].status \in TodoStatus
                        THEN data.steps[i].status ELSE NOT_MADE ]_vars

\* The last call of fetchTodos was started by this step, from `source`.
Started(source) ==
  polls' = Append(polls, [ source |-> source, phase |-> "registry",
                           turn |-> 0, out |-> NoResult ])

\* C20: mounting starts one poll and sets the timer; every firing of the
\* timer happens while the view is mounted and starts one poll; once the
\* view is discarded the timer is not active and no poll is started by it.
C20_RefreshLoop ==
  /\ [](timer <=> view = "mounted")
  /\ [][ /\ (view = "new" /\ view' = "mounted") => Started("mount")
         /\ (ticks' # ticks) =>
              /\ ticks' = ticks + 1
              /\ view = "mounted" /\ timer
              /\ Started("tick")
         /\ (Len(polls') > Len(polls) /\ polls'[Len(polls')].source = "tick")
              => (ticks' = ticks + 1 /\ view = "mounted")
         /\ (Len(polls') > Len(polls)) => Len(polls') = Len(polls) + 1
         /\ view = "discarded" =>
              (view' = "discarded" /\ ~timer' /\ ticks' = ticks)
       ]_vars

\* The timer fired while the view was mounted and started the second
\* poll; the view has since been discarded and the timer is not active.
C20_Witness ==
  /\ view = "discarded"
  /\ ~timer
  /\ ticks = 1
  /\ Len(polls) = 2
  /\ polls[1].source = "mount"
  /\ polls[2].source = "tick"

\* Call k of fetchTodos comes to its end in this step.
Completes(k) ==
  /\ k \in 1..Len(polls')
  /\ polls[k].phase # "done"
  /\ polls'[k].phase = "done"

\* Call k of fetchTodos has the result of a get_steps that succeeded.
GotSteps(k) ==
  polls[k].phase = "execute" /\ polls[k].out.llmContent.success

\* C21: when a poll that failed comes to its end (no registry, no tool, or
\* a response without success), the displayed list is the empty list.
C21_FailedPollShowsEmpty ==
  [][ \A k \in 1..Len(polls) :
        (Completes(k) /\ ~GotSteps(k)) => todos' = <<>> ]_vars

\* A poll that ends in the catch clause does leave the empty list; the one
\* that finds no tool passes both setTodos calls by.
RejectedPollShowsEmpty ==
  [][ \A k \in 1..Len(polls) :
        (Completes(k) /\ ~GotSteps(k) /\ todos' # todos) => todos' = <<>> ]_vars

\* The displayed list equals the store's list: as many entries, in the
\* same order, each with its record's id, description and status.
Synced ==
  /\ Len(todos) = Len(steps)
  /\ \A i \in 1..Len(steps) :
       /\ todos[i].id = steps[i].id
       /\ todos[i].description = steps[i].description
       /\ todos[i].status = steps[i].status

\* C22: in a run where the view is never discarded and, from some point
\* on, every poll that comes to its end has got the steps and the store is
\* no longer changed, the displayed list eventually follows the store's
\* list and does so from then on.
C22_EventuallySynced ==
  ( /\ [](view # "discarded")
    /\ <>[][ /\ \A k \in 1..Len(polls) : Completes(k) => GotSteps(k)
             /\ steps' = steps ]_vars )
  => <>[]Synced

\* Every status in the store is one of not_made, in_progress, made.
StatusesInEnum == \A i \in 1..Len(steps) : steps[i].status \in TodoStatus

\* In the runs of C22 in which the statuses stored end up within the
\* enumeration the displayed list does come to equal the store's list,
\* and stays equal.
EventuallySyncedWithinEnum ==
  ( /\ [](view # "discarded")
    /\ <>[]StatusesInEnum
    /\ <>[][ /\ \A k \in 1..Len(polls) : Completes(k) => GotSteps(k)
             /\ steps' = steps ]_vars )
  => <>[]Synced

\* The store was changed (a record added and marked in progress) and the
\* mounted view shows it, with no call of fetchTodos under way.
SyncedAfterChange ==
  /\ view = "mounted"
  /\ Len(steps) = 2
  /\ steps[1].status = IN_PROGRESS
  /\ Synced
  /\ Underway = <<>>

\* one object.
C24_OneStore ==
  [][ LET r == execute(steps, nextId, params') IN
        /\ Len(heap) <= 1 /\ got \subseteq {instance}
        /\ Len(heap') <= 1 /\ got' \subseteq {instance'}
        /\ result' = r.out
        /\ steps' = r.steps
        /\ nextId' = r.nextId
        /\ heap' = << [ steps |-> r.steps, nextId |-> r.nextId ] >> ]_vars

\* A call on one TodoTool object added a record, and a get_steps on the
\* other object returned it.
C24_Witness ==
  /\ tool = 2
  /\ params.action = "get_steps"
  /\ Len(result.llmContent.steps) = 1
  /\ Len(heap) = 1
  /\ heap[1].steps = steps
  /\ got = {1}

\* GEMINI_SYSTEM_MD is set to a file path: to something, and to none of
\* 0, false, 1, true in whatever case of letters.
SetToFilePath(v) ==
  v \notin {UNSET, ""} /\ toLowerCase(v) \notin {"0", "false", "1", "true"}

\* C25: after a call of getCoreSystemPromptEnhanced made with
\* GEMINI_SYSTEM_MD set to a file path, if there was a file at that path
\* the call returned its contents followed by the memory section, and if
\* there was none the call threw.
C25_OverrideReadsThatFile ==
  [][ ( /\ called'.name = "getCoreSystemPromptEnhanced"
        /\ called' # called
        /\ SetToFilePath(env.GEMINI_SYSTEM_MD) ) =>
        LET p == resolve(cwd, env.GEMINI_SYSTEM_MD) IN
          IF exists(files, p)
          THEN /\ ~called'.threw
               /\ called'.value = files[p] \o memorySuffix(called'.userMemory)
          ELSE called'.threw ]_vars

\* The same holds of the paths that toLowerCase leaves as they are.
OverrideReadsLowerCasePath ==
  [][ ( /\ called'.name = "getCoreSystemPromptEnhanced"
        /\ called' # called
        /\ SetToFilePath(env.GEMINI_SYSTEM_MD)
        /\ toLowerCase(env.GEMINI_SYSTEM_MD) = env.GEMINI_SYSTEM_MD ) =>
        LET p == resolve(cwd, env.GEMINI_SYSTEM_MD) IN
          IF exists(files, p)
          THEN /\ ~called'.threw
               /\ called'.value = files[p] \o memorySuffix(called'.userMemory)
          ELSE called'.threw ]_vars

\* C26: the counter is greater than the number every id in the list
\* stands for, so the numeral of the counter is no id in the list.
C26_CounterAboveIds ==
  /\ \A k \in 1..Len(steps) :
       ParseInt(steps[k].id) >= 1 /\ ParseInt(steps[k].id) < nextId
  /\ toString(nextId) \notin Ids(steps)

\* After an initializeTodo with two entries, a deleteStep of "1" and an
\* addStep, the list holds "2" and "3" and the counter is 4.
C26_Witness ==
  /\ lastOp.name = "add"
  /\ Ids(steps) = {"2", "3"}
  /\ nextId = 4

\* C27: when a call of fetchTodos comes to its end after one that was
\* started later has already come to its end (the two overlapped), the
\* displayed list stays what it was: the later call's result.
C27_LaterPollWins ==
  [][ \A k \in 1..Len(polls) :
        ( /\ Completes(k)
          /\ \E j \in (k + 1)..Len(polls) : polls[j].phase = "done" )
        => todos' = todos ]_vars

\* C28: once the view is discarded, todos and isLoading are not written:
\* they keep their values in every step from then on.
C28_NoWriteAfterDiscard ==
  [][ view = "discarded" =>
        (todos' = todos /\ isLoading' = isLoading) ]_vars

enhancedPromptPath == cwd \o "/" \o ".gemini" \o "/" \o "enhanced-system.md"

\* The last call was an EnhancedConfig.initialize that wrote its prompt,
\* and the variable and the file are as it left them.
AfterInitialize ==
  /\ called.name = "initialize"
  /\ ~called.threw
  /\ Len(writes) >= 1
  /\ env.GEMINI_SYSTEM_MD = enhancedPromptPath
  /\ files[enhancedPromptPath] = writes[Len(writes)]

\* This step is a call of EnhancedConfig.initialize with the user memory
\* of the call before it.
InitializeAgain ==
  /\ called'.name = "initialize"
  /\ called'.userMemory = called.userMemory
  /\ (Len(writes') > Len(writes) \/ called'.threw)

\* C29: a second EnhancedConfig.initialize, made right after the first
\* with the same user memory and working directory, writes to
\* enhanced-system.md what the first wrote.
C29_InitializeIdempotent ==
  [][ (AfterInitialize /\ InitializeAgain) =>
        /\ ~called'.threw
        /\ Len(writes') = Len(writes) + 1
        /\ writes'[Len(writes')] = writes[Len(writes)]
        /\ files'[enhancedPromptPath] = files[enhancedPromptPath] ]_vars

\* With a working directory without upper-case letters and no user memory
\* to append, the second call does write what the first wrote.
InitializeIdempotentWithoutMemory ==
  [][ ( /\ AfterInitialize /\ InitializeAgain
        /\ toLowerCase(cwd) = cwd
        /\ memorySuffix(called.userMemory) = "" ) =>
        /\ ~called'.threw
        /\ writes'[Len(writes')] = writes[Len(writes)] ]_vars

====
